---- MODULE Spec2Model ----
(***************************************************************************)
(* Model of the authenticated API client (fetchApi / refreshAccessToken)   *)
(* and of the AuthProvider session store of x-auto-pilot's front-end.      *)
(*                                                                         *)
(* Durable storage (localStorage), the has_session cookie and the          *)
(* in-memory user are the shared state.  Every fetchApi call is a process  *)
(* whose suspension points are the awaited network round-trips; the code   *)
(* that runs between two suspension points (including the continuation of  *)
(* the caller that awaits fetchApi) is one atomic action, as it is one     *)
(* run-to-completion job of the single-threaded event loop.                *)
(***************************************************************************)
EXTENDS Integers, FiniteSets, Sequences, TLC

\* ------------------------------------------------------------------ bounds
\* Number of distinct token responses the backend can hand out.
MaxTok == 2
\* Number of generic API calls (postsApi.*, ...) that can be in flight at once.
NumCalls == 1
\* Number of fetchApi calls (of any caller) that can be in flight at once.
MaxInFlight == 2

\* ------------------------------------------------------------------ values
\* localStorage.getItem(...) === null
None == [k |-> "none", id |-> 0]
\* access_token / refresh_token strings of token response number t
Acc(t) == [k |-> "access", id |-> t]
Ref(t) == [k |-> "refresh", id |-> t]

\* in-memory user: null, or the User object the backend returned
NoUser == "null"
Users == {"alice"}
\* the JSON payload of a resource endpoint
NoData == "none"
Payloads == {"post42"}

\* a JSON field that is not there (undefined)
Absent == "<undefined>"

\* HTTP statuses the backend answers with
Statuses == {200, 201, 204, 401, 403, 500}

\* response.ok
Ok(status) == status >= 200 /\ status <= 299

\* -------------------------------------------------------------- JSON bodies
\* A response body.  parse = FALSE: response.json() rejects (empty or
\* malformed body).  Otherwise the record is the parsed object: the fields of
\* a TokenResponse, of a User (user = the user's identity), of a resource
\* (data) and of an error body (detail, message).
Body(p, a, r, u, d, det, msg) ==
    [parse |-> p, access_token |-> a, refresh_token |-> r, user |-> u,
     data |-> d, detail |-> det, message |-> msg]

BadBody == Body(FALSE, None, None, NoUser, NoData, Absent, Absent)
\* the value fetchApi resolves with on 204 (undefined)
Undefined == Body(FALSE, None, None, NoUser, NoData, "<no value>", Absent)

TokenBodies == {Body(TRUE, Acc(t), Ref(t), u, NoData, Absent, Absent) :
                   t \in 1..MaxTok, u \in Users}
UserBodies == {Body(TRUE, None, None, u, NoData, Absent, Absent) : u \in Users}
DataBodies == {Body(TRUE, None, None, NoUser, d, Absent, Absent) :
                   d \in Payloads}
ErrBodies == {Body(TRUE, None, None, NoUser, NoData, det, msg) :
                   det \in {Absent, "", "Not allowed"},
                   msg \in {Absent, "", "Failed"}}

\* ------------------------------------------------------------------ headers
HeaderKeys == {"Content-Type", "Authorization", "X-Custom"}
HVal(s, t) == [s |-> s, tok |-> t]
\* `Bearer ${token}`
Bearer(token) == HVal("Bearer", token)
\* a header object is a function from a set of keys to values
NoHeaders == [k \in {} |-> HVal("", None)]
CallerValue(k) ==
    CASE k = "Content-Type" -> HVal("text/plain", None)
      [] k = "Authorization" -> HVal("Basic caller", None)
      [] OTHER -> HVal("x", None)
CallerHeaders == {[k \in K |-> CallerValue(k)] : K \in SUBSET HeaderKeys}

\* { ...a, ...b } : object spread, later keys win
Spread(a, b) ==
    [k \in (DOMAIN a) \cup (DOMAIN b) |-> IF k \in DOMAIN b THEN b[k] ELSE a[k]]
\* obj[key] = v
SetKey(obj, key, v) ==
    [k \in (DOMAIN obj) \cup {key} |-> IF k = key THEN v ELSE obj[k]]

\* "Content-Type": "application/json"
DefaultHeaders == [k \in {"Content-Type"} |-> HVal("application/json", None)]

\* ---------------------------------------------------------------- responses
\* What the network hands to an awaited fetch(): it throws (net = "throw"), or
\* it resolves with a response that has a status and a body.
Resp(s, b) == [net |-> "ok", status |-> s, body |-> b]
NetFail == [net |-> "throw", status |-> 0, body |-> BadBody]

\* the bodies the backend's wire contract allows for an endpoint and a status
SuccessBodies(kind) ==
    CASE kind = "me" -> UserBodies
      [] kind \in {"login", "register", "refresh"} -> TokenBodies
      [] OTHER -> DataBodies
BodiesFor(kind, s, errs) ==
    IF s = 204 THEN {BadBody}
    ELSE IF Ok(s) THEN SuccessBodies(kind) \cup {BadBody}
    ELSE errs
Responses(kind, errs) ==
    {NetFail} \cup
    UNION {{Resp(s, b) : b \in BodiesFor(kind, s, errs)} : s \in Statuses}

\* error bodies drawn when the message is not what is looked at
FewErrBodies == {Body(TRUE, None, None, NoUser, NoData, "Not allowed", Absent)}
AllErrBodies == ErrBodies \cup {BadBody}

\* one response per path through fetchApi: the fetch throws, 401, another
\* non-2xx status, 2xx with a body of the endpoint's shape
FewResponses(kind) ==
    {NetFail} \cup {Resp(s, b) : s \in {401, 500}, b \in FewErrBodies}
              \cup {Resp(200, b) : b \in SuccessBodies(kind)}


\* ------------------------------------------------------------------- state
BootProc == <<"boot", 0>>
AuthProc == <<"auth", 0>>
ApiProcs == {<<"api", i>> : i \in 1..NumCalls}
Procs == {BootProc, AuthProc} \cup ApiProcs
NoProc == <<"none", 0>>

VARIABLES
    storage,   \* localStorage: access_token, refresh_token
    cookie,    \* document.cookie holds has_session=1
    user,      \* AuthProvider's user state
    loading,   \* AuthProvider's loading state
    calls,     \* per process: the fetchApi invocation it is suspended in
    ev,        \* what the last step did (the outcome handed to a caller,
               \* a navigation); observation only, never read by an action
    route,     \* the route guard's answer to the last page request
    hook,      \* the state of the page's useApi hook
    fetches,   \* the fetcher() promises useApi's effects started
    gate       \* what the page's TierGate rendered

\* the page that is shown: route guard, useApi hook, TierGate
pageVars == <<route, hook, fetches, gate>>

vars == <<storage, cookie, user, loading, calls, ev, route, hook, fetches, gate>>

Cleared == [access_token |-> None, refresh_token |-> None]

\* a process that is not inside fetchApi
IdleCall ==
    [pc |-> "idle", kind |-> "none", token |-> None, opts |-> NoHeaders,
     headers |-> NoHeaders, newToken |-> None, nReq |-> 0, nRefresh |-> 0]

\* the outcome of a fetchApi call: resolved ("ok") or rejected with an error
Res(outcome, status, message, value, parsed) ==
    [outcome |-> outcome, status |-> status, message |-> message,
     value |-> value, parsed |-> parsed]
NoRes == Res("none", 0, "", Undefined, FALSE)

NoResp == [net |-> "none", status |-> 0, body |-> BadBody]

\* type: "done" (a fetchApi call settled and its caller ran), "refresh" (a
\* response sent the call into the refresh: a refresh request was sent, with
\* refresh token sent), "logout", or "step"
Ev(type, p, c, resp, res, nav) ==
    [type |-> type, proc |-> p, kind |-> c.kind, from |-> c.pc,
     resp |-> resp, res |-> res,
     nReq |-> c.nReq, nRefresh |-> c.nRefresh, token |-> c.token,
     newToken |-> c.newToken, sent |-> None, nav |-> nav]
NoEv(type) == Ev(type, NoProc, IdleCall, NoResp, NoRes, FALSE)

\* ---------------------------------------------------------------- fetchApi
\* getAccessToken(), getRefreshToken() in a browser
getAccessToken == storage.access_token
getRefreshToken == storage.refresh_token

\* a JavaScript value used as a condition
Truthy(x) == x \notin {Absent, ""}
\* a token string or null used as a condition
HasToken(t) == t # None

\* (the caller's headers object replacing the merged one)
BuildHeadersReplaced(token, callerHeaders) ==
    IF DOMAIN callerHeaders # {}
    THEN callerHeaders
    ELSE IF HasToken(token)
    THEN SetKey(DefaultHeaders, "Authorization", Bearer(token))
    ELSE DefaultHeaders

\* the headers of the first request: the JSON content type, then the
\* caller's headers spread over it, then the bearer token when there is one
BuildHeaders(token, callerHeaders) ==
    LET headers == Spread(DefaultHeaders, callerHeaders)
    IN  IF HasToken(token)
        THEN SetKey(headers, "Authorization", Bearer(token))
        ELSE headers

\* (the bearer token of the retry read from storage before the new one is
\* stored)
RetryHeadersFromStorage(headers, newToken) ==
    SetKey(headers, "Authorization", Bearer(getAccessToken))

\* headers["Authorization"] = `Bearer ${newToken}` before the retry
RetryHeaders(headers, newToken) ==
    SetKey(headers, "Authorization", Bearer(newToken))

\* new ApiError("Session expired", 401)
SessionExpired == Res("ApiError", 401, "Session expired", Undefined, FALSE)
\* the TypeError an awaited fetch() throws; fetchApi does not catch it
NetworkError == Res("TypeError", 0, "Failed to fetch", Undefined, FALSE)
\* the SyntaxError response.json() rejects with on a 2xx body that is not JSON
ParseError == Res("SyntaxError", 0, "Unexpected end of JSON input", Undefined, TRUE)

\* (message looked at before detail)
ErrorMessageMessageFirst(resp) ==
    LET message == "API error: " \o ToString(resp.status)
    IN  IF ~resp.body.parse THEN message
        ELSE IF Truthy(resp.body.message) THEN resp.body.message
        ELSE IF Truthy(resp.body.detail) THEN resp.body.detail
        ELSE message

\* errorData.detail || errorData.message || `API error: ${response.status}`
ErrorMessage(resp) ==
    LET message == "API error: " \o ToString(resp.status)
    IN  IF ~resp.body.parse THEN message
        ELSE IF Truthy(resp.body.detail) THEN resp.body.detail
        ELSE IF Truthy(resp.body.message) THEN resp.body.message
        ELSE message

\* (no special case for 204)
FinalResultNo204(resp) ==
    IF ~Ok(resp.status)
    THEN Res("ApiError", resp.status, ErrorMessage(resp), Undefined, TRUE)
    ELSE IF resp.body.parse
    THEN Res("ok", resp.status, "", resp.body, TRUE)
    ELSE ParseError

\* what fetchApi does with the final response (first one, or the retry's)
FinalResult(resp) ==
    IF ~Ok(resp.status)
    THEN Res("ApiError", resp.status, ErrorMessage(resp), Undefined, TRUE)
    ELSE IF resp.status = 204
    THEN Res("ok", resp.status, "", Undefined, FALSE)
    ELSE IF resp.body.parse
    THEN Res("ok", resp.status, "", resp.body, TRUE)
    ELSE ParseError

\* the session eviction of a failed refresh: both tokens removed, the
\* has_session cookie expired (window.location.href = "/login" is the step's
\* navigation, recorded in ev)
EvictedStorage == Cleared
\* (the cookie left as it is)
EvictedCookieKept == cookie
EvictedCookie == FALSE

\* (a restore effect that sets the user but not the cookie)
BootSettleNoCookie(res, st, ck) ==
    IF res.outcome = "ok"
    THEN /\ user' = res.value.user
         /\ cookie' = ck
         /\ storage' = st
         /\ loading' = FALSE
    ELSE /\ storage' = Cleared
         /\ cookie' = FALSE
         /\ loading' = FALSE
         /\ UNCHANGED user

\* (a restore effect whose catch removes the access token only)
BootSettleKeepsRefresh(res, st, ck) ==
    IF res.outcome = "ok"
    THEN /\ user' = res.value.user
         /\ cookie' = TRUE
         /\ storage' = st
         /\ loading' = FALSE
    ELSE /\ storage' = [st EXCEPT !.access_token = None]
         /\ cookie' = FALSE
         /\ loading' = FALSE
         /\ UNCHANGED user

\* AuthProvider's restore effect: the then / catch / finally of authApi.me()
BootSettle(res, st, ck) ==
    IF res.outcome = "ok"
    THEN /\ user' = res.value.user
         /\ cookie' = TRUE
         /\ storage' = st
         /\ loading' = FALSE
    ELSE /\ storage' = Cleared
         /\ cookie' = FALSE
         /\ loading' = FALSE
         /\ UNCHANGED user

\* (a login that stores the tokens and the user but not the cookie)
AuthSettleNoCookie(res, st, ck) ==
    IF res.outcome = "ok" /\ res.value # Undefined
    THEN /\ storage' = [access_token |-> res.value.access_token,
                        refresh_token |-> res.value.refresh_token]
         /\ cookie' = ck
         /\ user' = res.value.user
         /\ UNCHANGED loading
    ELSE /\ storage' = st
         /\ cookie' = ck
         /\ UNCHANGED <<user, loading>>

\* AuthProvider's login / register after the awaited authApi call
AuthSettle(res, st, ck) ==
    IF res.outcome = "ok" /\ res.value # Undefined
    THEN /\ storage' = [access_token |-> res.value.access_token,
                        refresh_token |-> res.value.refresh_token]
         /\ cookie' = TRUE
         /\ user' = res.value.user
         /\ UNCHANGED loading
    ELSE /\ storage' = st
         /\ cookie' = ck
         /\ UNCHANGED <<user, loading>>

\* fetchApi settles (resolves or rejects) and, in the same job of the event
\* loop, the code awaiting it runs.  st, ck: storage and cookie as fetchApi
\* leaves them; nav: fetchApi assigned window.location.href.
Finish(p, resp, res, st, ck, nav) ==
    LET c == calls[p]
    IN  /\ calls' = [calls EXCEPT ![p] = IdleCall]
        /\ ev' = Ev("done", p, c, resp, res, nav)
        /\ UNCHANGED pageVars
        /\ CASE c.kind = "me" -> BootSettle(res, st, ck)
             [] c.kind \in {"login", "register"} -> AuthSettle(res, st, ck)
             [] OTHER -> /\ storage' = st
                         /\ cookie' = ck
                         /\ UNCHANGED <<user, loading>>

\* (an eviction that spares tokens stored since the call was issued)
EvictUnlessRefreshed(p, resp) ==
    LET same == storage.access_token = calls[p].token
    IN  Finish(p, resp, SessionExpired,
               IF same THEN EvictedStorage ELSE storage,
               IF same THEN EvictedCookie ELSE cookie, TRUE)

\* (an eviction that also resets the in-memory user)
EvictClearsUser(p, resp) ==
    LET c == calls[p]
    IN  /\ calls' = [calls EXCEPT ![p] = IdleCall]
        /\ ev' = Ev("done", p, c, resp, SessionExpired, TRUE)
        /\ storage' = EvictedStorage
        /\ cookie' = EvictedCookie
        /\ user' = NoUser
        /\ loading' = IF c.kind = "me" THEN FALSE ELSE loading
        /\ UNCHANGED pageVars

\* the failed-refresh branch of fetchApi
Evict(p, resp) ==
    Finish(p, resp, SessionExpired, EvictedStorage, EvictedCookie, TRUE)

\* fetchApi up to its first await: the request is issued
StartCall(c, kind, callerHeaders) ==
    LET token == getAccessToken
    IN  [c EXCEPT !.pc = "req", !.kind = kind, !.token = token,
                  !.opts = callerHeaders,
                  !.headers = BuildHeaders(token, callerHeaders),
                  !.nReq = 1]

\* the processes suspended inside fetchApi
InFlight == {p \in Procs : calls[p].pc # "idle"}

Start(p, kind, callerHeaders) ==
    /\ calls[p].pc = "idle"
    /\ Cardinality(InFlight) < MaxInFlight
    /\ calls' = [calls EXCEPT ![p] = StartCall(IdleCall, kind, callerHeaders)]
    /\ ev' = NoEv("step")
    /\ UNCHANGED <<storage, cookie, user, loading, pageVars>>

\* (a refresh request sent without looking at the stored refresh token)
RecvFirstBlindRefresh(p, resp) ==
    LET c == calls[p]
    IN  /\ c.pc = "req"
        /\ IF resp.net = "throw"
           THEN Finish(p, resp, NetworkError, storage, cookie, FALSE)
           ELSE IF resp.status = 401 /\ HasToken(c.token)
           THEN /\ calls' = [calls EXCEPT ![p].pc = "refresh",
                               ![p].nRefresh = c.nRefresh + 1]
                /\ ev' = [NoEv("refresh") EXCEPT !.proc = p, !.resp = resp,
                               !.kind = c.kind, !.sent = getRefreshToken]
                /\ UNCHANGED <<storage, cookie, user, loading, pageVars>>
           ELSE Finish(p, resp, FinalResult(resp), storage, cookie, FALSE)

\* (a refresh attempted on every non-2xx response of an authenticated call)
RecvFirstRefreshAnyError(p, resp) ==
    LET c == calls[p]
    IN  /\ c.pc = "req"
        /\ IF resp.net = "throw"
           THEN Finish(p, resp, NetworkError, storage, cookie, FALSE)
           ELSE IF ~Ok(resp.status) /\ HasToken(c.token)
           THEN LET refreshToken == getRefreshToken
                IN  IF ~HasToken(refreshToken)
                    THEN Evict(p, resp)
                    ELSE /\ calls' = [calls EXCEPT ![p].pc = "refresh",
                                        ![p].nRefresh = c.nRefresh + 1]
                         /\ ev' = [NoEv("refresh") EXCEPT !.proc = p,
                                        !.resp = resp, !.kind = c.kind,
                                        !.sent = refreshToken]
                         /\ UNCHANGED <<storage, cookie, user, loading, pageVars>>
           ELSE Finish(p, resp, FinalResult(resp), storage, cookie, FALSE)

\* (a refresh attempted on a 401 whether or not a token had been attached)
RecvFirstRefreshNoToken(p, resp) ==
    LET c == calls[p]
    IN  /\ c.pc = "req"
        /\ IF resp.net = "throw"
           THEN Finish(p, resp, NetworkError, storage, cookie, FALSE)
           ELSE IF resp.status = 401
           THEN LET refreshToken == getRefreshToken
                IN  IF ~HasToken(refreshToken)
                    THEN Evict(p, resp)
                    ELSE /\ calls' = [calls EXCEPT ![p].pc = "refresh",
                                        ![p].nRefresh = c.nRefresh + 1]
                         /\ ev' = [NoEv("refresh") EXCEPT !.proc = p,
                                        !.resp = resp, !.kind = c.kind,
                                        !.sent = refreshToken]
                         /\ UNCHANGED <<storage, cookie, user, loading, pageVars>>
           ELSE Finish(p, resp, FinalResult(resp), storage, cookie, FALSE)

\* (a 401 that joins the refresh another call has in flight)
RecvFirstCoalesced(p, resp) ==
    LET c == calls[p]
    IN  /\ c.pc = "req"
        /\ IF resp.net = "throw"
           THEN Finish(p, resp, NetworkError, storage, cookie, FALSE)
           ELSE IF resp.status = 401 /\ HasToken(c.token)
           THEN LET refreshToken == getRefreshToken
                    joined == \E q \in DOMAIN calls : calls[q].pc = "refresh"
                IN  IF ~HasToken(refreshToken)
                    THEN Evict(p, resp)
                    ELSE /\ calls' = [calls EXCEPT ![p].pc = "refresh",
                                        ![p].nRefresh =
                                            IF joined THEN c.nRefresh
                                            ELSE c.nRefresh + 1]
                         /\ ev' = [NoEv("refresh") EXCEPT !.proc = p,
                                        !.resp = resp, !.kind = c.kind,
                                        !.sent = IF joined THEN None
                                                 ELSE refreshToken]
                         /\ UNCHANGED <<storage, cookie, user, loading, pageVars>>
           ELSE Finish(p, resp, FinalResult(resp), storage, cookie, FALSE)

\* the first response arrives (or the fetch throws)
RecvFirst(p, resp) ==
    LET c == calls[p]
    IN  /\ c.pc = "req"
        /\ IF resp.net = "throw"
           THEN Finish(p, resp, NetworkError, storage, cookie, FALSE)
           ELSE IF resp.status = 401 /\ HasToken(c.token)
           THEN LET refreshToken == getRefreshToken
                IN  IF ~HasToken(refreshToken)
                    THEN Evict(p, resp)
                    ELSE /\ calls' = [calls EXCEPT ![p].pc = "refresh",
                                        ![p].nRefresh = c.nRefresh + 1]
                         /\ ev' = [NoEv("refresh") EXCEPT !.proc = p,
                                        !.resp = resp, !.kind = c.kind,
                                        !.sent = refreshToken]
                         /\ UNCHANGED <<storage, cookie, user, loading, pageVars>>
           ELSE Finish(p, resp, FinalResult(resp), storage, cookie, FALSE)

\* (a refresh that stores the new access token only)
RecvRefreshAccessOnly(p, resp) ==
    LET c == calls[p]
    IN  /\ c.pc = "refresh"
        /\ IF \/ resp.net = "throw"
              \/ ~Ok(resp.status)
              \/ ~resp.body.parse
              \/ ~HasToken(resp.body.access_token)
           THEN Evict(p, resp)
           ELSE LET newToken == resp.body.access_token
                IN  /\ storage' = [storage EXCEPT !.access_token =
                                                    resp.body.access_token]
                    /\ calls' = [calls EXCEPT ![p].pc = "retry",
                                   ![p].token = None,
                                   ![p].newToken = newToken,
                                   ![p].headers = RetryHeaders(c.headers, newToken),
                                   ![p].nReq = c.nReq + 1]
                    /\ ev' = NoEv("step")
                    /\ UNCHANGED <<cookie, user, loading, pageVars>>

\* The refresh response arrives (or the fetch throws).  refreshAccessToken
\* returns null when the fetch throws, the status is not 2xx or json()
\* rejects; fetchApi takes the same branch when the returned access token is
\* falsy.  Otherwise both tokens are stored and the retry is issued.
RecvRefresh(p, resp) ==
    LET c == calls[p]
    IN  /\ c.pc = "refresh"
        /\ IF \/ resp.net = "throw"
              \/ ~Ok(resp.status)
              \/ ~resp.body.parse
              \/ ~HasToken(resp.body.access_token)
           THEN Evict(p, resp)
           ELSE LET newToken == resp.body.access_token
                IN  /\ storage' = [access_token |-> resp.body.access_token,
                                   refresh_token |-> resp.body.refresh_token]
                    /\ calls' = [calls EXCEPT ![p].pc = "retry",
                                   ![p].token = None,
                                   ![p].newToken = newToken,
                                   ![p].headers = RetryHeaders(c.headers, newToken),
                                   ![p].nReq = c.nReq + 1]
                    /\ ev' = NoEv("step")
                    /\ UNCHANGED <<cookie, user, loading, pageVars>>

\* (a retry that treats 401 like the first response does: refresh again)
RecvRetryLoop(p, resp) ==
    LET c == calls[p]
    IN  /\ c.pc = "retry"
        /\ IF resp.net = "throw"
           THEN Finish(p, resp, NetworkError, storage, cookie, FALSE)
           ELSE IF resp.status = 401 /\ HasToken(getRefreshToken)
           THEN /\ calls' = [calls EXCEPT ![p].pc = "refresh",
                               ![p].nRefresh = c.nRefresh + 1]
                /\ ev' = [NoEv("refresh") EXCEPT !.proc = p, !.resp = resp,
                               !.kind = c.kind, !.sent = getRefreshToken]
                /\ UNCHANGED <<storage, cookie, user, loading, pageVars>>
           ELSE Finish(p, resp, FinalResult(resp), storage, cookie, FALSE)

\* (a retry whose 401 evicts the session like a failed refresh)
RecvRetryEvicts(p, resp) ==
    LET c == calls[p]
    IN  /\ c.pc = "retry"
        /\ IF resp.net = "throw"
           THEN Finish(p, resp, NetworkError, storage, cookie, FALSE)
           ELSE IF resp.status = 401
           THEN Evict(p, resp)
           ELSE Finish(p, resp, FinalResult(resp), storage, cookie, FALSE)

\* the retried request's response arrives (or the fetch throws)
RecvRetry(p, resp) ==
    LET c == calls[p]
    IN  /\ c.pc = "retry"
        /\ IF resp.net = "throw"
           THEN Finish(p, resp, NetworkError, storage, cookie, FALSE)
           ELSE Finish(p, resp, FinalResult(resp), storage, cookie, FALSE)

\* ------------------------------------------------------------ AuthProvider
\* (a logout that forgets the refresh token)
LogoutAccessOnly ==
    /\ storage' = [storage EXCEPT !.access_token = None]
    /\ cookie' = FALSE
    /\ user' = NoUser
    /\ ev' = [NoEv("logout") EXCEPT !.nav = TRUE]
    /\ UNCHANGED <<calls, loading, pageVars>>

\* logout(): synchronous
Logout ==
    /\ storage' = Cleared
    /\ cookie' = FALSE
    /\ user' = NoUser
    /\ ev' = [NoEv("logout") EXCEPT !.nav = TRUE]
    /\ UNCHANGED <<calls, loading, pageVars>>

\* The page is (re)loaded: every pending continuation of the old page is
\* gone, AuthProvider is constructed (user null, loading true) and its
\* restore effect runs: without an access token loading becomes false, with
\* one authApi.me() is called.
PageLoad ==
    LET token == storage.access_token
    IN  /\ user' = NoUser
        /\ loading' = HasToken(token)
        /\ calls' = [p \in Procs |->
                       IF p = BootProc /\ HasToken(token)
                       THEN StartCall(IdleCall, "me", NoHeaders)
                       ELSE IdleCall]
        /\ ev' = NoEv("step")
        /\ UNCHANGED <<storage, cookie, pageVars>>

\* --------------------------------------------------------------- TierGate
\* const tierLevel: Record<string, number>
tierLevel == [free |-> 0, basic |-> 1, pro |-> 2, enterprise |-> 3]
\* tierLevel[tier] ?? 0
Level(tier) == IF tier \in DOMAIN tierLevel THEN tierLevel[tier] ELSE 0

\* requiredTier: "basic" | "pro" | "enterprise"
RequiredTiers == {"basic", "pro", "enterprise"}
\* currentTier: string (the user's subscription tier; "trial" is not a key
\* of tierLevel)
CurrentTiers == {"free", "basic", "pro", "enterprise", "trial"}

\* (a gate that opens only above the required tier)
TierGateStrict(requiredTier, currentTier) ==
    LET currentLevel == Level(currentTier)
        requiredLevel == Level(requiredTier)
    IN  IF currentLevel > requiredLevel THEN "children" ELSE "upgrade"

\* What TierGate returns: "children" is the fragment with the children as
\* they are, "upgrade" the children dimmed, blurred and without pointer
\* events under the card asking for the required plan.
TierGate(requiredTier, currentTier) ==
    LET currentLevel == Level(currentTier)
        requiredLevel == Level(requiredTier)
    IN  IF currentLevel >= requiredLevel THEN "children" ELSE "upgrade"

\* nothing rendered yet
NoGate == [requiredTier |-> "none", currentTier |-> "none", shown |-> "nothing"]

\* ------------------------------------------------------------- middleware
\* A pathname is the sequence of its pieces: "/login" is <<"/", "login">>,
\* "/posts/new" is <<"/", "posts", "/", "new">>, "/registerx" is
\* <<"/", "register", "x">>.
\* const publicPaths = ["/login", "/register"]
publicPaths == {<<"/", "login">>, <<"/", "register">>}
\* the pages of the app (directories of src/frontend/src/app, and /login)
AppRoutes ==
    publicPaths \cup
    {<<"/">>, <<"/", "posts">>, <<"/", "posts", "/", "new">>,
     <<"/", "analytics">>, <<"/", "following">>, <<"/", "settings">>}
\* pathnames that are no page of the app
OtherPaths == {<<"/", "login", "/", "reset">>, <<"/", "register", "x">>}
Paths == AppRoutes \cup OtherPaths

\* pathname.startsWith(p)
StartsWith(pathname, p) ==
    /\ Len(p) <= Len(pathname)
    /\ SubSeq(pathname, 1, Len(p)) = p

\* NextResponse.next() / NextResponse.redirect(new URL("/login", ...))
PassThrough(pathname) == [path |-> pathname, action |-> "next", to |-> pathname]
RedirectToLogin(pathname) ==
    [path |-> pathname, action |-> "redirect", to |-> <<"/", "login">>]
NoRoute == [path |-> <<>>, action |-> "none", to |-> <<>>]

\* (a guard that looks at durable storage instead of the cookie)
middlewareByStorage(pathname, hasSession) ==
    IF \E p \in publicPaths : StartsWith(pathname, p)
    THEN PassThrough(pathname)
    ELSE IF ~HasToken(storage.refresh_token)
    THEN RedirectToLogin(pathname)
    ELSE PassThrough(pathname)

\* middleware(request); hasSession: request.cookies.get("has_session") is
\* not undefined
middleware(pathname, hasSession) ==
    IF \E p \in publicPaths : StartsWith(pathname, p)
    THEN PassThrough(pathname)
    ELSE IF ~hasSession
    THEN RedirectToLogin(pathname)
    ELSE PassThrough(pathname)

\* ----------------------------------------------------------------- useApi
\* Number of fetcher() calls the hook's effects make.
MaxFetch == 3

\* null (data, error); the value fetcher() number i resolves with, or the
\* message of the error it rejects with
Null == [of |-> 0]
Fetched(i) == [of |-> i]

\* the pages that call useApi, and those that render a TierGate
HookPages ==
    {<<"/">>, <<"/", "posts">>, <<"/", "analytics">>, <<"/", "following">>,
     <<"/", "settings">>}
GatePages == {<<"/", "analytics">>, <<"/", "following">>}

\* no component mounted.  deps: the fetchCount the effect last ran for;
\* current: the fetcher() call of the effect that has not been cleaned up.
NoHook ==
    [mounted |-> FALSE, fetchCount |-> 0, deps |-> 0, current |-> 0,
     data |-> Null, loading |-> FALSE, error |-> Null]
\* a fetcher() promise and the `cancelled` variable of the effect run that
\* awaits it
NoFetch == [st |-> "none", cancelled |-> FALSE]
NoPage ==
    /\ route = NoRoute
    /\ hook = NoHook
    /\ fetches = [i \in 1..MaxFetch |-> NoFetch]
    /\ gate = NoGate

\* the fetcher() calls made so far
started == Cardinality({i \in 1..MaxFetch : fetches[i].st # "none"})

\* the effect's cleanup: cancelled = true
Cleanup ==
    IF hook.mounted
    THEN [fetches EXCEPT ![hook.current].cancelled = TRUE]
    ELSE fetches

\* The effect body: let cancelled = false; doFetch() runs up to its await
\* (setLoading(true), setError(null), fetcher() called).
RunEffect(h, f) ==
    LET i == started + 1
    IN  /\ hook' = [h EXCEPT !.deps = h.fetchCount, !.current = i,
                             !.loading = TRUE, !.error = Null]
        /\ fetches' = [f EXCEPT ![i] = [st |-> "pending", cancelled |-> FALSE]]

\* A page is requested: the route guard answers, and the page that was shown
\* goes away (its components unmount, their effects are cleaned up).
Request(pathname) ==
    /\ route' = middleware(pathname, cookie # FALSE)
    /\ fetches' = Cleanup
    /\ hook' = [hook EXCEPT !.mounted = FALSE]
    /\ gate' = NoGate
    /\ UNCHANGED <<storage, cookie, user, loading, calls, ev>>

\* the requested page is rendered: useApi's first render and effect
Mount ==
    /\ route.action = "next"
    /\ route.to \in HookPages
    /\ ~hook.mounted
    /\ started < MaxFetch
    /\ RunEffect([NoHook EXCEPT !.mounted = TRUE], fetches)
    /\ UNCHANGED <<storage, cookie, user, loading, calls, ev, route, gate>>

\* refetch(): setFetchCount(c => c + 1)
Refetch ==
    /\ hook.mounted
    /\ hook.fetchCount < MaxFetch
    /\ hook' = [hook EXCEPT !.fetchCount = hook.fetchCount + 1]
    /\ UNCHANGED <<storage, cookie, user, loading, calls, ev, route, fetches,
                   gate>>

\* React commits the render with the new fetchCount: the dependency changed,
\* so the previous effect is cleaned up and the effect runs again.
Commit ==
    /\ hook.mounted
    /\ hook.fetchCount # hook.deps
    /\ started < MaxFetch
    /\ RunEffect(hook, Cleanup)
    /\ UNCHANGED <<storage, cookie, user, loading, calls, ev, route, gate>>

\* (a continuation that writes without looking at `cancelled`)
SettleUnguarded(i, ok) ==
    /\ fetches[i].st = "pending"
    /\ fetches' = [fetches EXCEPT ![i].st = "done"]
    /\ hook' = IF ok
               THEN [hook EXCEPT !.data = Fetched(i), !.loading = FALSE]
               ELSE [hook EXCEPT !.error = Fetched(i), !.loading = FALSE]
    /\ UNCHANGED <<storage, cookie, user, loading, calls, ev, route, gate>>

\* fetcher() number i settles and doFetch continues after its await: try
\* (setData), catch (setError), finally (setLoading(false)), each only when
\* the effect run's `cancelled` is still false.
Settle(i, ok) ==
    /\ fetches[i].st = "pending"
    /\ fetches' = [fetches EXCEPT ![i].st = "done"]
    /\ hook' = IF fetches[i].cancelled
               THEN hook
               ELSE IF ok
               THEN [hook EXCEPT !.data = Fetched(i), !.loading = FALSE]
               ELSE [hook EXCEPT !.error = Fetched(i), !.loading = FALSE]
    /\ UNCHANGED <<storage, cookie, user, loading, calls, ev, route, gate>>

\* the page renders <TierGate requiredTier=... currentTier=...>
Render(requiredTier, currentTier) ==
    /\ route.action = "next"
    /\ route.to \in GatePages
    /\ hook.mounted
    /\ gate' = [requiredTier |-> requiredTier, currentTier |-> currentTier,
                shown |-> TierGate(requiredTier, currentTier)]
    /\ UNCHANGED <<storage, cookie, user, loading, calls, ev, route, hook,
                   fetches>>

\* ----------------------------------------------------------- specification
\* the state after the first page load with empty storage and no cookie
Init ==
    /\ storage = Cleared
    /\ cookie = FALSE
    /\ user = NoUser
    /\ loading = FALSE
    /\ calls = [p \in Procs |-> IdleCall]
    /\ ev = NoEv("step")
    /\ NoPage

Next ==
    \/ \E p \in ApiProcs : Start(p, "api", NoHeaders)
    \/ \E k \in {"login", "register"} : Start(AuthProc, k, NoHeaders)
    \/ \E p \in Procs : \E resp \in FewResponses(calls[p].kind) :
          RecvFirst(p, resp)
    \/ \E p \in Procs : \E resp \in FewResponses("refresh") :
          RecvRefresh(p, resp)
    \/ \E p \in Procs : \E resp \in FewResponses(calls[p].kind) :
          RecvRetry(p, resp)
    \/ Logout
    \/ PageLoad

Spec == Init /\ [][Next]_vars

\* ------------------------------------------------- one call, nothing else
\* A single fetchApi call of a page component, with no other operation in
\* between, started in a state the store leaves behind: logged out, or logged
\* in with the tokens of one token response.  The caller's headers, the
\* statuses and the bodies range over all their values.
SoloProc == <<"api", 1>>
Pair(t) == [access_token |-> Acc(t), refresh_token |-> Ref(t)]

InitSolo ==
    /\ \E t \in 0..MaxTok :
          /\ storage = IF t = 0 THEN Cleared ELSE Pair(t)
          /\ cookie = (t # 0)
    /\ user \in IF HasToken(storage.access_token) THEN Users ELSE {NoUser}
    /\ loading = FALSE
    /\ calls = [p \in Procs |-> IdleCall]
    /\ ev = NoEv("step")
    /\ NoPage

NextSolo ==
    \/ \E h \in CallerHeaders : Start(SoloProc, "api", h)
    \/ \E resp \in Responses("api", AllErrBodies) : RecvFirst(SoloProc, resp)
    \/ \E resp \in Responses("refresh", AllErrBodies) : RecvRefresh(SoloProc, resp)
    \/ \E resp \in Responses("api", AllErrBodies) : RecvRetry(SoloProc, resp)

SpecSolo == InitSolo /\ [][NextSolo]_vars

\* ------------------------------------------- one call, marker out of step
\* A single fetchApi call of a page component started where the store's
\* cookie and tokens disagree (states the store reaches, see C6): the cookie
\* set with nothing in storage, or tokens in storage without the cookie.
InitDesync ==
    /\ \E t \in 0..MaxTok :
          /\ storage = IF t = 0 THEN Cleared ELSE Pair(t)
          /\ cookie = (t = 0)
    /\ user \in Users \cup {NoUser}
    /\ loading = FALSE
    /\ calls = [p \in Procs |-> IdleCall]
    /\ ev = NoEv("step")
    /\ NoPage

SpecDesync == InitDesync /\ [][NextSolo]_vars

\* ------------------------------------------------------- one page at a time
\* Pages are requested, guarded by the middleware, mounted, fetch with useApi
\* and render a TierGate.  The session does not change meanwhile; it starts
\* in any combination of tokens and cookie the store can leave behind (the
\* cookie and the tokens can disagree, see C6).
InitPage ==
    /\ storage \in {Cleared, Pair(1)}
    /\ cookie \in BOOLEAN
    /\ user = NoUser
    /\ loading = FALSE
    /\ calls = [p \in Procs |-> IdleCall]
    /\ ev = NoEv("step")
    /\ NoPage

NextPage ==
    \/ \E pathname \in Paths : Request(pathname)
    \/ Mount
    \/ Refetch
    \/ Commit
    \/ \E i \in 1..MaxFetch : \E ok \in BOOLEAN : Settle(i, ok)
    \/ \E r \in RequiredTiers : \E t \in CurrentTiers : Render(r, t)

SpecPage == InitPage /\ [][NextPage]_vars

\* ------------------------------------------------------ concurrent calls
\* The page has just been loaded with the tokens of a session in storage:
\* the restore effect's whoami call is in flight.  Page components start
\* further fetchApi calls, and every request that was sent is answered in the
\* end (or its fetch throws); nobody logs in, logs out or reloads the page.
InitRace ==
    /\ storage = Pair(1)
    /\ cookie = TRUE
    /\ user = NoUser
    /\ loading = TRUE
    /\ calls = [p \in Procs |->
                  IF p = BootProc
                  THEN StartCall(IdleCall, "me", NoHeaders)
                  ELSE IdleCall]
    /\ ev = NoEv("step")
    /\ NoPage

\* the awaited fetch of process p settles
Deliver(p) ==
    \/ \E resp \in FewResponses(calls[p].kind) : RecvFirst(p, resp)
    \/ \E resp \in FewResponses("refresh") : RecvRefresh(p, resp)
    \/ \E resp \in FewResponses(calls[p].kind) : RecvRetry(p, resp)

\* the callers of fetchApi that take part
RaceProcs == {BootProc} \cup ApiProcs

NextRace ==
    \/ \E p \in ApiProcs : Start(p, "api", NoHeaders)
    \/ \E p \in RaceProcs : Deliver(p)

\* every network request eventually gets a response
FairRace == \A p \in RaceProcs : WF_vars(Deliver(p))

SpecRace == InitRace /\ [][NextRace]_vars /\ FairRace

\* ==================================================================== C1
\* the step just taken consumed a 401 answer to the retried request (the
\* first request was answered 401 and the refresh succeeded)
C1_RetryAnswered401 ==
    /\ ev.type = "done"
    /\ ev.from = "retry"
    /\ ev.resp.net = "ok"
    /\ ev.resp.status = 401

\* C1: a fetchApi call sends at most one refresh request and at most two
\* requests to its own endpoint; when the retried request is answered 401
\* the call has made exactly one refresh call and two attempts, and it ends
\* there, rejected with an ApiError of status 401.
C1_SingleRefresh ==
    /\ \A p \in Procs : calls[p].nRefresh <= 1 /\ calls[p].nReq <= 2
    /\ ev.type = "done" => ev.nRefresh <= 1 /\ ev.nReq <= 2
    /\ C1_RetryAnswered401 =>
          /\ ev.nRefresh = 1
          /\ ev.nReq = 2
          /\ ev.res.outcome = "ApiError"
          /\ ev.res.status = 401
          /\ calls[ev.proc].pc = "idle"

C1_Witness == C1_RetryAnswered401 /\ ev.kind = "api"

\* ==================================================================== C2
\* the step just taken consumed a 200 answer to the retried request
C2_RetryAnswered200 ==
    /\ ev.type = "done"
    /\ ev.from = "retry"
    /\ ev.resp.net = "ok"
    /\ ev.resp.status = 200
    /\ ev.resp.body.parse

\* C2: a lone call that sees 401, then a successful refresh, then 200 on the
\* retry resolves with the body of that final response, and storage then
\* holds the access and refresh token of the refresh response.
C2_RefreshTransparent ==
    /\ calls[SoloProc].pc = "retry" =>
          storage = Pair(calls[SoloProc].newToken.id)
    /\ C2_RetryAnswered200 =>
          /\ ev.res.outcome = "ok"
          /\ ev.res.value = ev.resp.body
          /\ storage = Pair(ev.newToken.id)

C2_Witness == C2_RetryAnswered200 /\ ev.newToken = Acc(MaxTok)

\* ==================================================================== C3
\* an authenticated request was answered 401 with no refresh token in storage
C3_NoRefreshToken ==
    /\ ev.type = "done"
    /\ ev.from = "req"
    /\ ev.resp.net = "ok"
    /\ ev.resp.status = 401
    /\ HasToken(ev.token)

\* the refresh request threw or was answered with a non-2xx status
C3_RefreshRejected ==
    /\ ev.type = "done"
    /\ ev.from = "refresh"
    /\ ev.resp.net = "throw" \/ ~Ok(ev.resp.status)

\* C3: when an authenticated request is answered 401 and the refresh fails
\* (the refresh response is not 2xx, the refresh fetch throws, or there is no
\* refresh token in storage), both tokens are gone from storage, the cookie
\* is cleared, navigation to /login is triggered, the request was issued
\* once only and the call is rejected with ApiError("Session expired", 401).
C3_SessionEviction ==
    (C3_NoRefreshToken \/ C3_RefreshRejected) =>
        /\ storage.access_token = None
        /\ storage.refresh_token = None
        /\ cookie = FALSE
        /\ ev.nav
        /\ ev.nReq = 1
        /\ ev.res.outcome = "ApiError"
        /\ ev.res.status = 401
        /\ ev.res.message = "Session expired"

C3_Witness == C3_NoRefreshToken /\ ev.kind = "api"
C3_WitnessNon2xx == C3_RefreshRejected /\ ev.resp.net = "ok"
C3_WitnessThrow == C3_RefreshRejected /\ ev.resp.net = "throw"

C5_BootDone(e) == e.type = "done" /\ e.kind = "me"
\* its final response is a successful whoami response
C5_WhoamiOk(e) ==
    /\ e.resp.net = "ok"
    /\ Ok(e.resp.status)
    /\ e.resp.body.parse
    /\ e.from \in {"req", "retry"}
\* whoami was answered 401 for the stored access token
C5_Whoami401(e) ==
    \/ e.from \in {"refresh", "retry"}
    \/ e.from = "req" /\ e.resp.net = "ok" /\ e.resp.status = 401

C5_BootEnds ==
    C5_BootDone(ev') =>
        IF C5_WhoamiOk(ev')
        THEN /\ user' = ev'.resp.body.user
             /\ cookie'
             /\ storage' = storage
             /\ ev'.res.outcome = "ok"
        ELSE /\ storage' = Cleared
             /\ ~cookie'
             /\ user' = user
             /\ ev'.res.outcome # "ok"

C6_CookieIffRefreshToken == cookie <=> HasToken(storage.refresh_token)

\* ==================================================================== C7
\* C7 as stated: a fetchApi call that fails is rejected with an ApiError that
\* carries a message and an HTTP status.
C7_AlwaysApiError ==
    (ev.type = "done" /\ ev.res.outcome # "ok") =>
        /\ ev.res.outcome = "ApiError"
        /\ ev.res.status \in Statuses

\* ==================================================================== C8
\* the call whose request is in flight
C8_Call == calls[SoloProc]

\* C8: whatever headers the caller supplies, the request in flight has a
\* Content-Type header (the caller's when supplied, else application/json)
\* and, when an access token is in storage (first request) or was just
\* refreshed (retry), an Authorization header.
C8_HeadersKept ==
    C8_Call.pc # "idle" =>
        /\ "Content-Type" \in DOMAIN C8_Call.headers
        /\ C8_Call.headers["Content-Type"] =
              IF "Content-Type" \in DOMAIN C8_Call.opts
              THEN C8_Call.opts["Content-Type"]
              ELSE HVal("application/json", None)
        /\ (C8_Call.pc = "req" /\ HasToken(storage.access_token)) =>
              "Authorization" \in DOMAIN C8_Call.headers
        /\ C8_Call.pc = "retry" =>
              /\ "Authorization" \in DOMAIN C8_Call.headers
              /\ C8_Call.headers["Authorization"] = Bearer(C8_Call.newToken)

C8_Witness ==
    /\ C8_Call.pc = "retry"
    /\ DOMAIN C8_Call.opts = {"X-Custom"}
    /\ DOMAIN C8_Call.headers = HeaderKeys

\* ==================================================================== C9
\* C9 as stated: every header the caller passes is in the issued request with
\* the caller's value, a caller-supplied Authorization header included.
C9_CallerHeadersSent ==
    C8_Call.pc # "idle" =>
        \A k \in DOMAIN C8_Call.opts :
            /\ k \in DOMAIN C8_Call.headers
            /\ C8_Call.headers[k] = C8_Call.opts[k]

\* =================================================================== C10
\* the response this step consumed is the call's final response: not a
\* refresh response, and not the 401 that sent the call into the refresh
C10_Final ==
    /\ ev.type = "done"
    /\ ev.resp.net = "ok"
    /\ ev.from \in {"req", "retry"}
    /\ ~C3_NoRefreshToken

\* C10: a final 204 response resolves with undefined and response.json() is
\* not called; every other final 2xx response has response.json() called and,
\* its body being JSON, resolves with the parsed body.
C10_NoContent ==
    C10_Final =>
        /\ ev.resp.status = 204 =>
              /\ ev.res.outcome = "ok"
              /\ ev.res.value = Undefined
              /\ ~ev.res.parsed
        /\ (Ok(ev.resp.status) /\ ev.resp.status # 204) =>
              /\ ev.res.parsed
              /\ ev.resp.body.parse =>
                    ev.res.outcome = "ok" /\ ev.res.value = ev.resp.body

C10_Witness ==
    /\ C10_Final
    /\ ev.resp.status = 204
    /\ ev.from = "retry"
    /\ ev.res.outcome = "ok"

\* =================================================================== C11
\* the final response of the call (the first one, or the retry's) is not 2xx
C11_NonOkFinal == C10_Final /\ ~Ok(ev.resp.status)

\* a field of the error body that is there and is not the empty string
C11_Present(field) == field # Absent /\ field # ""

\* C11: when the final response is not 2xx the call is rejected with an
\* ApiError whose status is the response's status and whose message is the
\* body's detail if present and non-empty, else the body's message if present
\* and non-empty, else "API error: <status>" (also when the body is not JSON).
C11_ErrorOfFinalResponse ==
    C11_NonOkFinal =>
        /\ ev.res.outcome = "ApiError"
        /\ ev.res.status = ev.resp.status
        /\ ev.res.message =
              IF ev.resp.body.parse /\ C11_Present(ev.resp.body.detail)
              THEN ev.resp.body.detail
              ELSE IF ev.resp.body.parse /\ C11_Present(ev.resp.body.message)
              THEN ev.resp.body.message
              ELSE "API error: " \o ToString(ev.resp.status)

C11_Witness ==
    /\ C11_NonOkFinal
    /\ ev.from = "retry"
    /\ ev.resp.body.detail = "Not allowed"
    /\ ev.resp.body.message = "Failed"
    /\ ev.res.message = "Not allowed"

C11_WitnessFallback ==
    /\ C11_NonOkFinal
    /\ ~ev.resp.body.parse
    /\ ev.res.message = "API error: 500"

\* =================================================================== C12
\* free(0) < basic(1) < pro(2) < enterprise(3); any other string counts as 0
C12_Ordinal(tier) ==
    CASE tier = "free" -> 0
      [] tier = "basic" -> 1
      [] tier = "pro" -> 2
      [] tier = "enterprise" -> 3
      [] OTHER -> 0

\* C12: for every current tier and every required tier in {basic, pro,
\* enterprise}, TierGate renders the children as they are exactly when the
\* current tier's level is at least the required tier's level (equal tiers
\* are not gated), and otherwise the suppressed children with the upgrade
\* prompt; a current tier outside the four known ones counts as level 0.
C12_TierGateOrdinal ==
    gate # NoGate =>
        /\ gate.requiredTier \in RequiredTiers
        /\ gate.shown =
              IF C12_Ordinal(gate.currentTier) >= C12_Ordinal(gate.requiredTier)
              THEN "children"
              ELSE "upgrade"

C12_Witness ==
    /\ gate.currentTier = "pro"
    /\ gate.requiredTier = "pro"
    /\ gate.shown = "children"

C12_WitnessGated ==
    /\ gate.currentTier = "pro"
    /\ gate.requiredTier = "enterprise"
    /\ gate.shown = "upgrade"

C12_WitnessUnknown ==
    /\ gate.currentTier = "trial"
    /\ gate.requiredTier = "basic"
    /\ gate.shown = "upgrade"

\* =================================================================== C13
\* what a step that is a logout does: afterwards no token is in storage, the
\* cookie is cleared, the user is null and navigation to /login is triggered;
\* no fetchApi call is started, changed or ended by it
C13_LogoutStep ==
    ev'.type = "logout" =>
        /\ storage'.access_token = None
        /\ storage'.refresh_token = None
        /\ ~cookie'
        /\ user' = NoUser
        /\ ev'.nav
        /\ calls' = calls

\* C13: logout can be taken in every state (it has no precondition and no
\* await, so it cannot fail), and it is one step that issues no network
\* request and leaves both tokens absent, the cookie cleared, the in-memory
\* user null and navigation to /login triggered.
C13_LogoutClears == [](ENABLED Logout) /\ [][C13_LogoutStep]_vars

C13_Witness ==
    /\ ev.type = "logout"
    /\ calls[AuthProc].pc = "req"
    /\ calls[BootProc].pc = "refresh"

\* =================================================================== C14
\* the step just taken handed a successful login or register response (2xx,
\* a token response as JSON) to AuthProvider's login / register
C14_AuthSuccess ==
    /\ ev.type = "done"
    /\ ev.kind \in {"login", "register"}
    /\ ev.from \in {"req", "retry"}
    /\ ev.resp.net = "ok"
    /\ Ok(ev.resp.status)
    /\ ev.resp.body.parse

\* C14: in the step in which the login or register endpoint's successful
\* response is consumed, both tokens of the response are put in storage, the
\* has_session cookie is set and the in-memory user becomes the response's
\* user.
C14_LoginPersists ==
    C14_AuthSuccess =>
        /\ storage.access_token = ev.resp.body.access_token
        /\ storage.refresh_token = ev.resp.body.refresh_token
        /\ HasToken(storage.access_token)
        /\ HasToken(storage.refresh_token)
        /\ cookie
        /\ user = ev.resp.body.user
        /\ user \in Users

C14_Witness ==
    /\ C14_AuthSuccess
    /\ ev.kind = "register"
    /\ storage = Pair(MaxTok)
    /\ calls[BootProc].pc = "req"

C14_WitnessLogin ==
    /\ C14_AuthSuccess
    /\ ev.kind = "login"
    /\ ev.from = "retry"

\* =================================================================== C15
\* the public routes: /login and /register
C15_PublicRoutes == {<<"/", "login">>, <<"/", "register">>}

\* C15: for a page of the app that is not public the route guard redirects
\* to /login when the has_session cookie is absent and lets the request
\* through when it is present; /login and /register are let through with or
\* without the cookie.  Nothing but the path and the cookie enters the
\* decision: it is the same whatever tokens are in storage.
C15_RouteGuard ==
    route # NoRoute =>
        IF route.path \in C15_PublicRoutes
        THEN route.action = "next" /\ route.to = route.path
        ELSE route.path \in AppRoutes =>
                IF cookie
                THEN route.action = "next" /\ route.to = route.path
                ELSE route.action = "redirect" /\ route.to = <<"/", "login">>

C15_Witness ==
    /\ route.path = <<"/", "analytics">>
    /\ route.action = "redirect"
    /\ ~cookie
    /\ HasToken(storage.refresh_token)

C15_WitnessNoTokens ==
    /\ route.path = <<"/", "posts", "/", "new">>
    /\ route.action = "next"
    /\ cookie
    /\ ~HasToken(storage.refresh_token)

C15_WitnessPublic ==
    /\ route.path = <<"/", "register">>
    /\ route.action = "next"
    /\ ~cookie

\* a pathname that only starts with a public path is let through as well
C15_WitnessPrefix ==
    /\ route.path = <<"/", "register", "x">>
    /\ route.action = "next"
    /\ ~cookie

\* =================================================================== C16
\* the call that just settled had its authenticated request answered 401:
\* it settled in the refresh, in the retry, or at once for want of a refresh
\* token
C16_Answered401 ==
    /\ ev.type = "done"
    /\ ev.from \in {"refresh", "retry"} \/ C3_NoRefreshToken

C16_Outcome ==
    C16_Answered401 =>
        IF ev.from = "retry"
        THEN IF ev.resp.net = "ok" /\ Ok(ev.resp.status)
             THEN ev.res.outcome = "ok"
             ELSE /\ ev.res.outcome # "ok"
                  /\ ev.res # SessionExpired
                  /\ ev.resp.net = "ok" => ev.res.status = ev.resp.status
        ELSE ev.res = SessionExpired

C17_Authenticated ==
    /\ HasToken(storage.access_token)
    /\ HasToken(storage.refresh_token)
    /\ cookie
    /\ user \in Users

\* a step that clears the stored tokens or the cookie of an Authenticated
\* session is a logout or the eviction after a failed refresh
C17_ClearedOnlyBy ==
    (/\ C17_Authenticated
     /\ \/ ~HasToken(storage'.access_token)
        \/ ~HasToken(storage'.refresh_token)
        \/ ~cookie')
    => \/ ev'.type = "logout"
       \/ ev'.type = "done" /\ ev'.res = SessionExpired /\ ev'.nav

\* a step that makes the session Authenticated is a successful login,
\* register or bootstrap whoami
C17_EnteredOnlyBy ==
    (~C17_Authenticated /\ C17_Authenticated')
    => /\ ev'.type = "done"
       /\ ev'.kind \in {"login", "register", "me"}
       /\ ev'.res.outcome = "ok"

\* C17 as stated: once the session is Authenticated its tokens and cookie are
\* cleared only by logout or by an irrecoverable refresh failure, and the
\* session becomes Authenticated only through login success, register success
\* or successful bootstrap, whatever else is in flight.
C17_SessionStateMachine == [][C17_ClearedOnlyBy /\ C17_EnteredOnlyBy]_vars

\* the bootstrap whoami has just failed on a page where a login or register
\* had succeeded while it was pending: the user is still set, the tokens and
\* the cookie of the new session are gone, and nothing navigated to /login
C17_LoginUndoneByBootstrap ==
    /\ ev.type = "done"
    /\ ev.kind = "me"
    /\ ev.res.outcome # "ok"
    /\ ~ev.nav
    /\ user \in Users
    /\ storage = Cleared
    /\ ~cookie

\* =================================================================== C18
\* the cookie and the presence of a refresh token agree
C18_InStep == cookie <=> HasToken(storage.refresh_token)

\* C18 as stated, for a call that succeeds: started where the cookie and the
\* stored refresh token disagree, a fetchApi call that resolves leaves them in
\* agreement when it completes.
C18_CorrectedByNextCall ==
    (ev.type = "done" /\ ev.res.outcome = "ok") => C18_InStep

\* =================================================================== C19
\* the step consumes the first response of a call, and that response has a
\* non-2xx status other than 401
C19_FirstErrorResponse ==
    /\ ev'.type \in {"done", "refresh"}
    /\ calls[ev'.proc].pc = "req"
    /\ ev'.resp.net = "ok"
    /\ ~Ok(ev'.resp.status)
    /\ ev'.resp.status # 401

C19_NoRetryStep ==
    C19_FirstErrorResponse =>
        /\ ev'.type = "done"
        /\ calls'[ev'.proc].pc = "idle"
        /\ ev'.nReq = 1
        /\ ev'.nRefresh = 0
        /\ storage' = storage
        /\ cookie' = cookie
        /\ ~ev'.nav
        /\ ev'.res.outcome = "ApiError"
        /\ ev'.res.status = ev'.resp.status

\* C19: when the first response of a fetchApi call has a non-2xx status other
\* than 401, the call ends in that step having issued one request and no
\* refresh request, storage and the cookie are as before, no navigation is
\* triggered, and the call is rejected with an ApiError carrying that status.
C19_NoRetryOnOtherErrors == [][C19_NoRetryStep]_vars

C19_Witness ==
    /\ ev.type = "done"
    /\ ev.from = "req"
    /\ ev.resp.status = 500
    /\ HasToken(ev.token)
    /\ storage = Pair(MaxTok)
    /\ cookie

C19_Witness4xx ==
    /\ ev.type = "done"
    /\ ev.from = "req"
    /\ ev.resp.status = 403
    /\ HasToken(ev.token)

\* =================================================================== C20
\* the state the hook hands to the component
C20_State(h) == <<h.data, h.error, h.loading>>

\* fetcher() call i settles in this step
C20_Settles(i) == fetches[i].st = "pending" /\ fetches'[i].st = "done"

\* fetcher() call i was superseded: the component is unmounted, or a newer
\* fetch has been started since
C20_Superseded(i) == ~hook.mounted \/ i # started

C20_NoStaleWrite ==
    \A i \in 1..MaxFetch :
        (C20_Settles(i) /\ C20_Superseded(i)) =>
            C20_State(hook') = C20_State(hook)

\* C20: the outcome of a superseded fetch (its component unmounted, or refetch
\* started a newer fetch before it settled) changes none of data, error and
\* loading: only the most recently started fetch of a mounted component
\* writes its result, so a late answer never overwrites a newer one.
C20_SupersededFetchIgnored == [][C20_NoStaleWrite]_vars

\* a superseded fetch has settled after the newer one wrote its result
C20_Witness ==
    /\ hook.mounted
    /\ hook.data = Fetched(2)
    /\ ~hook.loading
    /\ fetches[2].st = "done"
    /\ fetches[1].st = "done"
    /\ fetches[1].cancelled

\* a fetch has settled after its component was unmounted
C20_WitnessUnmounted ==
    /\ ~hook.mounted
    /\ hook.loading
    /\ fetches[1].st = "done"
    /\ fetches[1].cancelled

\* =================================================================== C21
\* the step consumes a 401 answer to a request that was sent without an
\* access token (none was in storage when the call started)
C21_Unauthenticated401 ==
    /\ ev'.type \in {"done", "refresh"}
    /\ calls[ev'.proc].pc = "req"
    /\ ~HasToken(calls[ev'.proc].token)
    /\ ev'.resp.net = "ok"
    /\ ev'.resp.status = 401

C21_OrdinaryErrorStep ==
    C21_Unauthenticated401 =>
        /\ ev'.type = "done"
        /\ ev'.nRefresh = 0
        /\ ev'.nReq = 1
        /\ storage' = storage
        /\ cookie' = cookie
        /\ ~ev'.nav
        /\ ev'.res.outcome = "ApiError"
        /\ ev'.res.status = 401
        /\ ev'.res.message = ev'.resp.body.detail

\* C21: a 401 answer to a request sent without an access token sends no
\* refresh request, leaves storage and the cookie as they are and does not
\* navigate, also when a refresh token is in storage by then; the call is
\* rejected with an ApiError of status 401 carrying the backend's message.
C21_No401RefreshWithoutToken == [][C21_OrdinaryErrorStep]_vars

\* such a 401 has arrived while a refresh token was in storage (a login
\* completed after the request had been sent)
C21_Witness ==
    /\ ev.type = "done"
    /\ ev.from = "req"
    /\ ev.kind = "api"
    /\ ev.resp.status = 401
    /\ ~HasToken(ev.token)
    /\ HasToken(storage.refresh_token)
    /\ cookie

\* =================================================================== C22
\* process p issues its retried request in this step
C22_IssuesRetry(p) == calls[p].pc # "retry" /\ calls'[p].pc = "retry"

\* the retry is issued in the step that consumes the call's own successful
\* refresh response, which also persists the new tokens; its bearer token is
\* the access token of that response
C22_RetryStep ==
    \A p \in RaceProcs :
        C22_IssuesRetry(p) =>
            /\ calls[p].pc = "refresh"
            /\ calls[p].nRefresh = 1
            /\ HasToken(calls'[p].newToken)
            /\ storage'.access_token = calls'[p].newToken
            /\ storage'.refresh_token = Ref(calls'[p].newToken.id)
            /\ calls'[p].headers["Authorization"] = Bearer(calls'[p].newToken)
            /\ calls'[p].nReq = 2

\* while the retry is in flight its bearer token stays the one its own
\* refresh returned, whatever is in storage
C22_RetryKeepsOwnToken ==
    \A p \in RaceProcs :
        (calls[p].pc = "retry" /\ calls'[p].pc = "retry") =>
            calls'[p] = calls[p]

\* C22: within one call the retried request is issued only after the call's
\* own refresh request has succeeded and the new tokens are persisted, and it
\* carries the access token returned by that refresh response, not a value
\* read from storage again, whatever other calls write to storage meanwhile.
C22_RetryAfterOwnRefresh == [][C22_RetryStep /\ C22_RetryKeepsOwnToken]_vars

\* a retry in flight with its own token while another call's refresh has
\* since replaced the tokens in storage
C22_Witness ==
    /\ calls[BootProc].pc = "retry"
    /\ calls[BootProc].headers["Authorization"] = Bearer(Acc(1))
    /\ storage = Pair(MaxTok)

\* =================================================================== C23
\* this step is the failed-refresh branch of some call
C23_RefreshFailed ==
    /\ ev'.type = "done"
    /\ ev'.from \in {"req", "refresh"}
    /\ ev'.res = SessionExpired

C23_EvictionStep ==
    C23_RefreshFailed =>
        /\ storage' = Cleared
        /\ ~cookie'
        /\ ev'.nav
        /\ \A q \in Procs \ {ev'.proc} : calls'[q] = calls[q]

\* C23: a refresh failure in one call evicts the whole session even when
\* other calls are in flight: both tokens and the cookie are cleared
\* whatever concurrent calls did, tokens stored by another call's successful
\* refresh included, and the other calls go on.
C23_EvictionIsGlobal == [][C23_EvictionStep]_vars

\* a call has just succeeded with a refreshed token while storage and cookie
\* are empty
C23_Witness ==
    /\ ev.type = "done"
    /\ ev.from = "retry"
    /\ ev.res.outcome = "ok"
    /\ HasToken(ev.newToken)
    /\ storage = Cleared
    /\ ~cookie


\* an eviction by the component call has just cleared the tokens that the
\* whoami's refresh had stored, with the whoami's retry still in flight
C23_WitnessOverwritten ==
    /\ ev.type = "done"
    /\ ev.from = "refresh"
    /\ ev.kind = "api"
    /\ ev.res = SessionExpired
    /\ calls[BootProc].pc = "retry"
    /\ storage = Cleared
    /\ ~cookie

\* =================================================================== C24
\* process p's authenticated first request is answered with 401 in this step
\* while a refresh token is in storage
C24_Answered401(p) ==
    /\ ev'.type \in {"done", "refresh"}
    /\ ev'.proc = p
    /\ calls[p].pc = "req"
    /\ HasToken(calls[p].token)
    /\ ev'.resp.net = "ok"
    /\ ev'.resp.status = 401
    /\ HasToken(storage.refresh_token)

C24_OwnRefreshStep ==
    \A p \in RaceProcs :
        /\ C24_Answered401(p) =>
               /\ ev'.type = "refresh"
               /\ ev'.sent = storage.refresh_token
               /\ calls'[p].pc = "refresh"
               /\ calls'[p].nRefresh = 1
        /\ calls'[p].nRefresh > calls[p].nRefresh =>
               /\ C24_Answered401(p)
               /\ calls[p].nRefresh = 0

\* C24: refresh is not coalesced.  Every call whose authenticated request is
\* answered with 401 while a refresh token is in storage issues its own
\* request to the refresh endpoint, whatever the other calls in flight are
\* doing, and that is the only way a refresh request is issued; the request
\* carries the refresh token that is in storage when the 401 arrives.
C24_RefreshNotCoalesced == [][C24_OwnRefreshStep]_vars

\* the component call's 401 has just arrived after the whoami's refresh was
\* stored: it sends the stored refresh token, the second refresh request of
\* two calls
C24_Witness ==
    /\ ev.type = "refresh"
    /\ ev.proc \in ApiProcs
    /\ ev.sent = Ref(MaxTok)
    /\ calls[ev.proc].token = Acc(1)
    /\ calls[ev.proc].nRefresh = 1
    /\ calls[BootProc].pc = "retry"
    /\ calls[BootProc].nRefresh = 1

\* two refresh requests in flight at once
C24_WitnessBothRefreshing ==
    /\ calls[BootProc].pc = "refresh"
    /\ \E p \in ApiProcs : calls[p].pc = "refresh"
    /\ \A p \in InFlight : calls[p].nRefresh = 1

\* =================================================================== C25
\* the store's operations that set the user: the restore effect, login and
\* register, each on the success of its call
C25_StoreSuccess ==
    /\ ev'.type = "done"
    /\ ev'.kind \in {"me", "login", "register"}
    /\ ev'.res.outcome = "ok"

\* the provider is constructed anew by a page load, with its initial user
C25_Constructed ==
    /\ ev'.type = "step"
    /\ user' = NoUser
    /\ \A p \in Procs \ {BootProc} : calls'[p] = IdleCall

C25_UserStep ==
    user' # user =>
        \/ ev'.type = "logout" /\ user' = NoUser
        \/ C25_StoreSuccess
        \/ C25_Constructed

\* C25: the in-memory user is changed only by the store's own operations
\* (bootstrap success, login success, register success, logout); no step of
\* fetchApi, a refresh success and the session eviction on a refresh failure
\* included, changes it.
C25_UserOnlyByStore == [][C25_UserStep]_vars

\* a component call's refresh failure has just evicted the session, and the
\* user is still set
C25_Witness ==
    /\ ev.type = "done"
    /\ ev.kind = "api"
    /\ ev.res = SessionExpired
    /\ ev.nav
    /\ storage = Cleared
    /\ user \in Users

\* =================================================================== C26
\* the requests a call has issued, by its position
C26_Requests(c) ==
    CASE c.pc = "idle" -> c.nReq = 0 /\ c.nRefresh = 0
      [] c.pc = "req" -> c.nReq = 1 /\ c.nRefresh = 0
      [] c.pc = "refresh" -> c.nReq = 1 /\ c.nRefresh = 1
      [] c.pc = "retry" -> c.nReq = 2 /\ c.nRefresh = 1

C26_AtMostThree ==
    \A p \in RaceProcs :
        /\ C26_Requests(calls[p])
        /\ calls[p].nReq + calls[p].nRefresh <= 3

\* the suspension points follow one another in one order only
C26_InOrder ==
    \A p \in RaceProcs :
        calls'[p].pc # calls[p].pc =>
            <<calls[p].pc, calls'[p].pc>> \in
                {<<"idle", "req">>, <<"req", "refresh">>, <<"req", "idle">>,
                 <<"refresh", "retry">>, <<"refresh", "idle">>,
                 <<"retry", "idle">>}

\* C26: one call issues at most three network requests, in this order: the
\* initial request, at most one refresh request, at most one retried request;
\* when every request eventually gets a response or fails, the call always
\* terminates.
C26_ThreeRequestsThenEnds ==
    /\ [](C26_AtMostThree)
    /\ [][C26_InOrder]_vars
    /\ \A p \in RaceProcs : (calls[p].pc # "idle") ~> (calls[p].pc = "idle")

\* a call has just ended after its three requests
C26_Witness ==
    /\ ev.type = "done"
    /\ ev.from = "retry"
    /\ ev.nReq = 2
    /\ ev.nRefresh = 1
    /\ calls[ev.proc].pc = "idle"

\* =================================================================== C27
\* the two stored values are the tokens of one token response
C27_SameResponse ==
    \E b \in TokenBodies :
        /\ storage.access_token = b.access_token
        /\ storage.refresh_token = b.refresh_token

\* C27: token pair invariant.  In every state reachable from empty storage
\* by any interleaving of bootstrap, login, register, logout and concurrent
\* fetchApi calls, access_token is in storage if and only if refresh_token
\* is, and when present the two come from the same token response.
C27_TokenPair ==
    /\ HasToken(storage.access_token) <=> HasToken(storage.refresh_token)
    /\ HasToken(storage.access_token) => C27_SameResponse

\* a pair stored by one response has been replaced by the pair of another
\* while a call that refreshed with the first is still in flight
C27_Witness ==
    /\ \E p \in Procs :
          /\ calls[p].pc = "retry"
          /\ calls[p].newToken = Acc(1)
    /\ storage = Pair(MaxTok)
    /\ cookie

\* =================================================================== C28
\* the retried request of a call whose refresh succeeded is answered with a
\* non-2xx status in this step
C28_RetryRefused ==
    /\ ev'.type = "done"
    /\ calls[ev'.proc].pc = "retry"
    /\ ev'.resp.net = "ok"
    /\ ~Ok(ev'.resp.status)

C28_NoEvictionStep ==
    C28_RetryRefused =>
        /\ storage' = storage
        /\ storage'.access_token = calls[ev'.proc].newToken
        /\ HasToken(storage'.refresh_token)
        /\ cookie' = cookie
        /\ ~ev'.nav
        /\ ev'.res.outcome = "ApiError"
        /\ ev'.res.status = ev'.resp.status
        /\ ev'.res.message # SessionExpired.message
        /\ ev'.res.message \in {ev'.resp.body.detail, ev'.resp.body.message,
                                "API error: " \o ToString(ev'.resp.status)}

\* C28: when the refresh succeeded but the retried request gets a non-2xx
\* response (a second 401 included) the session is not evicted: storage
\* keeps the refreshed tokens, the cookie is not cleared, no navigation to
\* the login page is triggered, and the error carries the retried response's
\* status and message, not "Session expired".
C28_RetryErrorKeepsSession == [][C28_NoEvictionStep]_vars

\* a second 401, on the retry, has just ended the call with the refreshed
\* pair still stored
C28_Witness ==
    /\ ev.type = "done"
    /\ ev.from = "retry"
    /\ ev.resp.net = "ok"
    /\ ev.resp.status = 401
    /\ ev.res.status = 401
    /\ ev.res.message = "Not allowed"
    /\ storage.access_token = ev.newToken
    /\ HasToken(storage.refresh_token)
    /\ cookie

\* =================================================================== C29
\* the login / register endpoint answers the form's request with a non-2xx
\* status in this step
C29_Refused ==
    /\ ev'.type \in {"done", "refresh"}
    /\ ev'.proc = AuthProc
    /\ calls[AuthProc].pc = "req"
    /\ calls[AuthProc].kind \in {"login", "register"}
    /\ ev'.resp.net = "ok"
    /\ ~Ok(ev'.resp.status)

C29_UnchangedStep ==
    C29_Refused =>
        /\ ev'.type = "done"
        /\ calls'[AuthProc].pc = "idle"
        /\ ev'.nRefresh = 0
        /\ ~ev'.nav
        /\ storage' = storage
        /\ cookie' = cookie
        /\ user' = user
        /\ ev'.res.outcome = "ApiError"
        /\ ev'.res.status = ev'.resp.status

\* C29: a failed login or register leaves the session state unchanged: when
\* the endpoint answers with a non-2xx status (401 for invalid credentials),
\* tokens, cookie and user are as before the call, no refresh request is
\* issued and no navigation is triggered, whatever storage held before (a
\* leftover access token included).
C29_FailedLoginChangesNothing == [][C29_UnchangedStep]_vars

\* a login refused with 401 has ended as an expired session: the tokens and
\* the cookie of the session that was there are gone and the page navigates
C29_LoginEvicted ==
    /\ ev.type = "done"
    /\ ev.kind = "login"
    /\ ev.res = SessionExpired
    /\ ev.nav
    /\ storage = Cleared
    /\ ~cookie

\* a login refused with 401 twice, the stored tokens replaced in between by
\* the refresh it made
C29_LoginRefreshed ==
    /\ ev.type = "done"
    /\ ev.kind = "login"
    /\ ev.from = "retry"
    /\ ev.resp.status = 401
    /\ ev.nRefresh = 1
    /\ ev.newToken = Acc(MaxTok)
    /\ storage = Pair(MaxTok)

\* =================================================================== C30
\* C30: without the has_session cookie the route guard lets a request
\* through only for the login and register routes themselves; every other
\* path, those that merely begin with the text of a public path included, is
\* redirected to /login.
C30_OnlyPublicPass ==
    (route # NoRoute /\ ~cookie) =>
        IF route.path \in C15_PublicRoutes
        THEN route.action = "next"
        ELSE route.action = "redirect" /\ route.to = <<"/", "login">>

\* a request for a path that only begins with "/register" has been let
\* through without the cookie
C30_PrefixLetThrough ==
    /\ route # NoRoute
    /\ ~cookie
    /\ route.path \in OtherPaths
    /\ route.path \notin C15_PublicRoutes
    /\ StartsWith(route.path, <<"/", "register">>)
    /\ route.action = "next"
    /\ route.to = route.path

====
